---- MODULE Spec2Model ----
(***************************************************************************)
(* Model of the Slate process-control worker (process_control.py) and of   *)
(* the part of the main window (main_window.py) that commands it.          *)
(*                                                                         *)
(* The worker runs run_full_proc in its own thread; the main thread        *)
(* receives the worker's notifications through a queue and calls           *)
(* terminate/pause/resume on the worker object directly.  Every access to  *)
(* shared state (the drive abort flag, the camera handle, the drive        *)
(* session) is a step of its own, so the two threads interleave at those   *)
(* accesses.                                                               *)
(***************************************************************************)
EXTENDS Integers, Sequences, FiniteSets, TLC

\* ---------------------------------------------------------------- bounds
MaxDishes == 2
MaxPerDish == 1
MaxDishesSel == 2
MaxReads == 3
MaxStarts == 2

\* ------------------------------------------------------- program constants
\* the literal of the capacity check in locate_valid_colonies
Capacity == 96
\* number of entries of CONFIG_LOCATIONS["wells"]
NumWells == 96
\* largest number of Petri dishes the dish-count spin box accepts
NumDishSlots == 6

\* detector outputs (colonies per dish) tried by the colony-selection
\* specification: values around the capacity and its half
DetectChoices == {0, 1, 47, 48, 49, 95, 96, 97, 150}

\* detector outputs tried by the sampling-cycle specification
DetectSamp == {0, 1, 96, 97}

VARIABLES
    pc,             \* position of the worker thread in run_full_proc
    stageI,         \* index into process_actions of the current iteration
    dishI,          \* index of the dish of the running capture/sampling loop
    colI,           \* index of the colony within petri_dishes[dishI]
    sterFrom,       \* caller of the running sterilize_needle
    e,              \* message of the exception bound by `except Exception as e`
    curExc,         \* message of the exception raised last
    hasCam,         \* self.cam is set
    hasDrive,       \* self.drive_ctrl is set
    camOpen,        \* the camera handle is open
    driveUp,        \* the drive session is established and not terminated
    abort,          \* drive_ctrl.abort
    paused,         \* self.paused
    homed,          \* axes homed successfully
    petri_dishes,   \* self.petri_dishes
    total_colonies, \* self.total_colonies, -1 while the attribute is unset
    dish_count,     \* petri_dish_count given to the constructor
    detected,       \* what the colony detector reports for each dish
    workbook,       \* rows of the last workbook saved, per dish; <<>> if none
    notes,          \* stage and terminal notifications emitted, in order
    progress,       \* colony_count / colony_index notifications emitted
    seen,           \* number of notifications the main thread has handled
    uiState,        \* MainWindow.state
    mpc,            \* position of the main thread
    starts,         \* workers started by start_button_callback so far
    camReleases,    \* calls of cam.release()
    driveTerminates,\* calls of drive_ctrl.terminate()
    termCalls,      \* invocations of ProcessControlWorker.terminate
    saves,          \* invocations of save_tabulated_data
    recov,          \* steps taken by the fault recovery of run_full_proc
    abortSeen,      \* the worker has observed the abort flag set
    abortEver,      \* the abort flag has been set during the run
    faultEver,      \* an operation of the worker has faulted
    afterFault,     \* what the pipeline did after the first fault
    sampLog,        \* drive commands submitted by run_sampling_cycle and the
                    \* abort flags it observed at its checkpoints, in order
    capLog,         \* move_direct commands and images of capture_images
    reads,          \* cam.read() calls for the current dish (saturating)
    readFailed,     \* a cam.read() for the current dish returned no frame
    stopAt          \* transfers completed when the stop button was clicked

workerVars == <<pc, stageI, dishI, colI, sterFrom, e, curExc>>
hwVars == <<hasCam, hasDrive, camOpen, driveUp, abort, paused, homed>>
dataVars == <<petri_dishes, total_colonies, dish_count, detected, workbook>>
noteVars == <<notes, progress>>
mainVars == <<seen, uiState, mpc, starts>>
countVars == <<camReleases, driveTerminates, termCalls, saves>>
histVars == <<recov, abortSeen, abortEver, faultEver, afterFault>>
logVars == <<sampLog, capLog, reads, readFailed, stopAt>>
vars == <<workerVars, hwVars, dataVars, noteVars, mainVars, countVars, histVars,
          logVars>>

\* ------------------------------------------------------------ data model
\* a stage table announcing detection before capture
process_actions_swapped ==
    <<"CAM_INIT", "DRIVE_INIT", "DRIVE_HOME", "IMG_PROC", "IMG_CAP",
      "SAMP_CYC", "SAV_TAB", "TERM">>

process_actions ==
    <<"CAM_INIT", "DRIVE_INIT", "DRIVE_HOME", "IMG_CAP", "IMG_PROC",
      "SAMP_CYC", "SAV_TAB", "TERM">>

\* the stage labels in the order the pipeline is meant to announce them
StageOrder ==
    <<"CAM_INIT", "DRIVE_INIT", "DRIVE_HOME", "IMG_CAP", "IMG_PROC",
      "SAMP_CYC", "SAV_TAB", "TERM", "DONE">>

\* first position of each stage handler, in the order of process_actions
HandlerEntry ==
    <<"init_camera", "init_drives", "home_z", "cap_move", "locate",
      "ster_hot", "save", "term_release">>

PetriDish == [raw_image |-> FALSE, colonies |-> <<>>]

Colony(n) == [id |-> n, sample_duration |-> FALSE, well |-> 0]

StageNote(label) == [kind |-> "stage", val |-> label]
FaultNote(msg) == [kind |-> "fault", val |-> msg]
FinishedNote == [kind |-> "finished", val |-> ""]

IsStage(n) == n.kind = "stage"
IsTerminal(n) == n.kind \in {"fault", "finished"}

stages == SelectSeq(notes, IsStage)
terminals == SelectSeq(notes, IsTerminal)

RECURSIVE SumTo(_, _)
SumTo(f, n) == IF n = 0 THEN 0 ELSE f[n] + SumTo(f, n - 1)

\* number of colony records held by the dishes
TargetCount(dishes) == SumTo([d \in 1..Len(dishes) |-> Len(dishes[d].colonies)], Len(dishes))

\* ids of the colony records held by the dishes
TargetIds(dishes) ==
    UNION {{dishes[d].colonies[k].id : k \in 1..Len(dishes[d].colonies)} : d \in 1..Len(dishes)}

\* a colony loop that stops one colony before the capacity
RECURSIVE LocateFromOffByOne(_, _, _, _)
LocateFromOffByOne(dishes, det, d, count) ==
    IF d > Len(dishes)
    THEN [dishes |-> dishes, count |-> count]
    ELSE LET new == [k \in 1..det[d] |-> Colony(count + k - 1)]
             nd == [dishes EXCEPT ![d].colonies = @ \o new]
             c2 == count + det[d]
         IN  IF c2 >= Capacity - 1
             THEN [dishes |-> nd, count |-> c2]
             ELSE LocateFromOffByOne(nd, det, d + 1, c2)

\* a colony loop that numbers the colonies of every dish from 0
RECURSIVE LocateFromPerDish(_, _, _, _)
LocateFromPerDish(dishes, det, d, count) ==
    IF d > Len(dishes)
    THEN [dishes |-> dishes, count |-> count]
    ELSE LET new == [k \in 1..det[d] |-> Colony(k - 1)]
             nd == [dishes EXCEPT ![d].colonies = @ \o new]
             c2 == count + det[d]
         IN  IF c2 >= Capacity
             THEN [dishes |-> nd, count |-> c2]
             ELSE LocateFromPerDish(nd, det, d + 1, c2)

\* the colony loop of locate_valid_colonies, from dish d on
RECURSIVE LocateFrom(_, _, _, _)
LocateFrom(dishes, det, d, count) ==
    IF d > Len(dishes)
    THEN [dishes |-> dishes, count |-> count]
    ELSE LET new == [k \in 1..det[d] |-> Colony(count + k - 1)]
             nd == [dishes EXCEPT ![d].colonies = @ \o new]
             c2 == count + det[d]
         IN  IF c2 >= Capacity
             THEN [dishes |-> nd, count |-> c2]
             ELSE LocateFrom(nd, det, d + 1, c2)

\* sheets with a row for every colony, transferred or not
SheetRowsAll(dishes) == [d \in 1..Len(dishes) |-> dishes[d].colonies]

\* the rows save_tabulated_data writes on each dish's sheet
SheetRows(dishes) ==
    [d \in 1..Len(dishes) |->
        SelectSeq(dishes[d].colonies, LAMBDA c : c.sample_duration)]

\* ------------------------------------------------------------------ Init
InitCommon ==
    /\ stageI = 1 /\ dishI = 1 /\ colI = 1 /\ sterFrom = "first"
    /\ e = "" /\ curExc = ""
    /\ hasCam = FALSE /\ hasDrive = FALSE /\ camOpen = FALSE /\ driveUp = FALSE
    /\ abort = FALSE /\ paused = FALSE /\ homed = {}
    /\ petri_dishes = [d \in 1..dish_count |-> PetriDish]
    /\ total_colonies = -1
    /\ workbook = <<>>
    /\ notes = <<>> /\ progress = <<>>
    /\ seen = 0 /\ uiState = "STARTUP" /\ mpc = "idle" /\ starts = 1
    /\ camReleases = 0 /\ driveTerminates = 0 /\ termCalls = 0 /\ saves = 0
    /\ recov = <<>> /\ abortSeen = FALSE /\ abortEver = FALSE
    /\ faultEver = FALSE /\ afterFault = {}
    /\ sampLog = <<>> /\ capLog = <<>> /\ reads = 0 /\ readFailed = FALSE
    /\ stopAt = -1

\* the state start_button_callback leaves: worker constructed, thread started
Init ==
    /\ dish_count \in 1..MaxDishes
    /\ detected \in [1..dish_count -> 0..MaxPerDish]
    /\ pc = "check"
    /\ InitCommon


\* the stage whose handler the worker is in, 0 outside the handlers
HandlerStage ==
    CASE pc = "init_camera" -> 1
      [] pc = "init_drives" -> 2
      [] pc \in {"home_z", "home_x", "home_y"} -> 3
      [] pc \in {"cap_move", "cap_abort", "cap_discard", "cap_read",
                 "cap_release"} -> 4
      [] pc = "locate" -> 5
      [] pc \in {"ster_hot", "ster_cool", "samp_pick", "samp_chk1",
                 "samp_well", "samp_chk2", "samp_chk3", "samp_dur",
                 "samp_outer"} -> 6
      [] pc = "save" -> 7
      [] pc \in {"term_release", "term_park", "term_drive"} -> 8
      [] OTHER -> 0

\* ------------------------------------------------------- worker: helpers
\* an exception leaves the stage loop and is bound by `except Exception as e`
Raise(msg) ==
    /\ pc' = "exc_save"
    /\ e' = msg
    /\ curExc' = msg
    /\ faultEver' = TRUE

\* an exception raised inside the recovery: the `finally` clause runs next
RaiseInRecovery(msg) ==
    /\ pc' = "exc_emit"
    /\ curExc' = msg
    /\ UNCHANGED <<e, faultEver>>

\* the stage handler returned: next iteration of the loop over process_actions
HandlerDone ==
    /\ pc' = IF stageI < Len(process_actions) THEN "check" ELSE "post"
    /\ stageI' = IF stageI < Len(process_actions) THEN stageI + 1 ELSE stageI

\* what the pipeline does after an operation has faulted
Mark(what) == IF faultEver THEN afterFault \cup what ELSE afterFault

\* cv2.VideoCapture.release()
CamRelease ==
    /\ camReleases' = camReleases + 1
    /\ camOpen' = FALSE

\* DriveManager.terminate(): ends the session; the library may flag the abort
DriveTerminate ==
    /\ driveTerminates' = driveTerminates + 1
    /\ driveUp' = FALSE
    /\ \E flag \in {abort, TRUE} :
          /\ abort' = flag
          /\ abortEver' = (abortEver \/ flag)

\* a dish loop that leaves out the last dish
MoreDishesSkipLast(d) == d + 1 < Len(petri_dishes)

\* `for petri_dish in self.petri_dishes`: a dish follows dish d
MoreDishes(d) == d < Len(petri_dishes)

\* number of colonies whose transfer has completed (sample_duration set)
Transfers ==
    SumTo([d \in 1..Len(petri_dishes) |->
              Len(SelectSeq(petri_dishes[d].colonies,
                            LAMBDA c : c.sample_duration))],
          Len(petri_dishes))

\* saturating count of cam.read() calls
CountRead(n) == IF n < MaxReads THEN n + 1 ELSE n

\* head of `for colony in petri_dish.colonies` for colony c of dish d
InnerHead(d, c) ==
    IF c <= Len(petri_dishes[d].colonies) THEN "samp_pick" ELSE "samp_outer"

\* ------------------------------------------------- worker: run_full_proc
\* loop head: abort check, stage notification, dispatch to the handler
CheckStage ==
    /\ pc = "check"
    /\ IF hasDrive /\ abort
       THEN /\ pc' = "post"
            /\ abortSeen' = TRUE
            /\ UNCHANGED <<notes, afterFault>>
       ELSE /\ notes' = Append(notes, StageNote(process_actions[stageI]))
            /\ pc' = HandlerEntry[stageI]
            /\ afterFault' = Mark({"stage", process_actions[stageI]})
            /\ UNCHANGED abortSeen
    /\ dishI' = 1 /\ colI' = 1 /\ sterFrom' = "first"
    /\ UNCHANGED <<logVars, stageI, e, curExc, hwVars, dataVars, progress, mainVars,
                   countVars, recov, abortEver, faultEver>>

\* after the loop: DONE unless the abort flag is set
PostLoop ==
    /\ pc = "post"
    /\ IF ~abort
       THEN /\ notes' = Append(notes, StageNote("DONE"))
            /\ afterFault' = Mark({"stage"})
            /\ UNCHANGED abortSeen
       ELSE /\ abortSeen' = TRUE
            /\ UNCHANGED <<notes, afterFault>>
    /\ pc' = "finish"
    /\ UNCHANGED <<logVars, stageI, dishI, colI, sterFrom, e, curExc, hwVars, dataVars,
                   progress, mainVars, countVars, recov, abortEver, faultEver>>

\* the `else` clause of the try statement
EmitFinished ==
    /\ pc = "finish"
    /\ notes' = Append(notes, FinishedNote)
    /\ pc' = "done"
    /\ UNCHANGED <<logVars, stageI, dishI, colI, sterFrom, e, curExc, hwVars, dataVars,
                   progress, mainVars, countVars, histVars>>

\* ----------------------------------------------------- worker: the inits
InitCamera ==
    /\ pc = "init_camera"
    /\ \/ /\ hasCam' = TRUE /\ camOpen' = TRUE
          /\ HandlerDone
          /\ UNCHANGED <<e, curExc, faultEver>>
       \/ \* VideoCapture or the mkdir of the raw image directory raises
          /\ \E set \in BOOLEAN : hasCam' = set /\ camOpen' = set
          /\ Raise("init_camera")
          /\ UNCHANGED stageI
    /\ UNCHANGED <<logVars, dishI, colI, sterFrom, hasDrive, driveUp, abort, paused,
                   homed, dataVars, noteVars, mainVars, countVars, recov,
                   abortSeen, abortEver, afterFault>>

InitDrives ==
    /\ pc = "init_drives"
    /\ hasDrive' = TRUE
    /\ \/ /\ driveUp' = TRUE
          /\ HandlerDone
          /\ UNCHANGED <<e, curExc, faultEver>>
       \/ /\ Raise("init_drives")
          /\ UNCHANGED <<stageI, driveUp>>
    /\ UNCHANGED <<logVars, dishI, colI, sterFrom, hasCam, camOpen, abort, paused,
                   homed, dataVars, noteVars, mainVars, countVars, recov,
                   abortSeen, abortEver, afterFault>>

\* ------------------------------------------------- worker: home_drives
HomePc == [Z |-> "home_z", X |-> "home_x", Y |-> "home_y"]
\* a homing sequence that goes from Z to Y
HomeNextSkipX == [Z |-> "home_y", X |-> "home_y", Y |-> "home_done"]

HomeNext == [Z |-> "home_x", X |-> "home_y", Y |-> "home_done"]

HomeAxis(axis) ==
    /\ pc = HomePc[axis]
    /\ afterFault' = Mark({"motion"})
    /\ \/ /\ homed' = homed \cup {axis}
          /\ IF axis = "Y"
             THEN HandlerDone
             ELSE pc' = HomeNext[axis] /\ UNCHANGED stageI
          /\ UNCHANGED <<notes, e, curExc, faultEver>>
       \/ \* `except Exception as e: self.exception.emit(str(e))`, then return
          /\ notes' = Append(notes, FaultNote("home"))
          /\ curExc' = "home"
          /\ faultEver' = TRUE
          /\ HandlerDone
          /\ UNCHANGED <<homed, e>>
    /\ UNCHANGED <<logVars, dishI, colI, sterFrom, hasCam, hasDrive, camOpen, driveUp,
                   abort, paused, dataVars, progress, mainVars, countVars,
                   recov, abortSeen, abortEver>>

HomeDrives == \E axis \in {"Z", "X", "Y"} : HomeAxis(axis)

\* ------------------------------------------------ worker: capture_images
CaptureMove ==
    /\ pc = "cap_move"
    /\ afterFault' = Mark({"motion"})
    /\ capLog' = Append(capLog, [op |-> "move", dish |-> dishI])
    /\ reads' = 0 /\ readFailed' = FALSE
    /\ \/ /\ pc' = "cap_abort"
          /\ UNCHANGED <<e, curExc, faultEver>>
       \/ Raise("move_direct")
    /\ UNCHANGED <<sampLog, stopAt, stageI, dishI, colI, sterFrom, hwVars, dataVars, noteVars,
                   mainVars, countVars, recov, abortSeen, abortEver>>

\* a capture loop that goes on to the frame reads although the flag is set
CaptureAfterAbortGoOn == "cap_discard"

\* `if self.drive_ctrl.abort: break` leaves the loop over the dishes
CaptureAfterAbort == "cap_release"

CaptureAbortCheck ==
    /\ pc = "cap_abort"
    /\ IF abort
       THEN pc' = CaptureAfterAbort /\ abortSeen' = TRUE
       ELSE pc' = "cap_discard" /\ UNCHANGED abortSeen
    /\ UNCHANGED <<logVars, stageI, dishI, colI, sterFrom, e, curExc, hwVars, dataVars,
                   noteVars, mainVars, countVars, recov, abortEver, faultEver,
                   afterFault>>

\* `while not result: result, _ = self.cam.read()`; a released camera
\* delivers no frame
CaptureDiscard ==
    /\ pc = "cap_discard"
    /\ \E result \in {FALSE, camOpen} :
          /\ pc' = IF result THEN "cap_read" ELSE "cap_discard"
          /\ readFailed' = (readFailed \/ ~result)
    /\ reads' = CountRead(reads)
    /\ UNCHANGED <<sampLog, capLog, stopAt, stageI, dishI, colI, sterFrom, e, curExc, hwVars, dataVars,
                   noteVars, mainVars, countVars, histVars>>

CaptureRead ==
    /\ pc = "cap_read"
    /\ \E result \in {FALSE, camOpen} :
          IF result
          THEN /\ petri_dishes' = [petri_dishes EXCEPT ![dishI].raw_image = TRUE]
               /\ capLog' = Append(capLog, [op |-> "image", dish |-> dishI])
               /\ IF MoreDishes(dishI)
                  THEN pc' = "cap_move" /\ dishI' = dishI + 1
                  ELSE pc' = "cap_release" /\ UNCHANGED dishI
               /\ reads' = 0 /\ readFailed' = FALSE
               /\ UNCHANGED <<e, curExc, faultEver>>
          ELSE /\ Raise("capture")
               /\ reads' = CountRead(reads) /\ readFailed' = TRUE
               /\ UNCHANGED <<petri_dishes, dishI, capLog>>
    /\ UNCHANGED <<sampLog, stopAt, stageI, colI, sterFrom, hwVars, total_colonies, dish_count,
                   detected, workbook, noteVars, mainVars, countVars, recov,
                   abortSeen, abortEver, afterFault>>

CaptureRelease ==
    /\ pc = "cap_release"
    /\ CamRelease
    /\ HandlerDone
    /\ UNCHANGED <<logVars, dishI, colI, sterFrom, e, curExc, hasCam, hasDrive, driveUp,
                   abort, paused, homed, dataVars, noteVars, mainVars,
                   driveTerminates, termCalls, saves, histVars>>

\* ----------------------------------------- worker: locate_valid_colonies
\* a progress maximum giving the index of the last colony
ColonyCountNoteLast(n) == [kind |-> "max", val |-> n - 1]

\* a progress maximum counting from one
ColonyCountNoteFromOne(n) == [kind |-> "max", val |-> n + 1]

\* self.colony_count.emit(self.total_colonies)
ColonyCountNote(n) == [kind |-> "max", val |-> n]

LocateValidColonies ==
    /\ pc = "locate"
    /\ \/ LET r == LocateFrom(petri_dishes, detected, 1, 0)
          IN  /\ petri_dishes' = r.dishes
              /\ total_colonies' = r.count
              /\ progress' = Append(progress, ColonyCountNote(r.count))
              /\ HandlerDone
              /\ UNCHANGED <<e, curExc, faultEver>>
       \/ \* the detector or a file operation raises
          /\ Raise("detect")
          /\ UNCHANGED <<stageI, petri_dishes, total_colonies, progress>>
    /\ UNCHANGED <<logVars, dishI, colI, sterFrom, hwVars, dish_count, detected,
                   workbook, notes, mainVars, countVars, recov, abortSeen,
                   abortEver, afterFault>>

\* ---------------------------------------------- worker: sterilize_needle
SterilizeHot ==
    /\ pc = "ster_hot"
    /\ afterFault' = Mark({"motion"})
    /\ sampLog' = Append(sampLog, [op |-> "ster_hot", id |-> -1])
    /\ \/ /\ pc' = "ster_cool"
          /\ UNCHANGED <<e, curExc, faultEver>>
       \/ Raise("move")
    /\ UNCHANGED <<capLog, reads, readFailed, stopAt, stageI, dishI,
                   colI, sterFrom, hwVars, dataVars, noteVars,
                   mainVars, countVars, recov, abortSeen, abortEver>>

SterilizeCool ==
    /\ pc = "ster_cool"
    /\ afterFault' = Mark({"motion"})
    /\ sampLog' = Append(sampLog, [op |-> "ster_cool", id |-> -1])
    /\ \/ /\ pc' = IF sterFrom = "first" THEN InnerHead(1, 1) ELSE "samp_chk3"
          /\ UNCHANGED <<e, curExc, faultEver>>
       \/ Raise("move")
    /\ UNCHANGED <<capLog, reads, readFailed, stopAt, stageI, dishI,
                   colI, sterFrom, hwVars, dataVars, noteVars,
                   mainVars, countVars, recov, abortSeen, abortEver>>

\* -------------------------------------------- worker: run_sampling_cycle
\* colony_index notification, then the move to the colony at pick depth
SamplePick ==
    /\ pc = "samp_pick"
    /\ progress' = Append(progress,
            [kind |-> "value", val |-> petri_dishes[dishI].colonies[colI].id])
    /\ afterFault' = Mark({"motion"})
    /\ sampLog' = Append(sampLog,
            [op |-> "pick", id |-> petri_dishes[dishI].colonies[colI].id])
    /\ \/ /\ pc' = "samp_chk1"
          /\ UNCHANGED <<e, curExc, faultEver>>
       \/ Raise("move")
    /\ UNCHANGED <<capLog, reads, readFailed, stopAt, stageI, dishI, colI, sterFrom, hwVars, dataVars, notes,
                   mainVars, countVars, recov, abortSeen, abortEver>>

\* a sampling loop that goes on without sterilizing the needle
AfterDepositSkip == "samp_chk3"

\* what follows the abort check after the deposit move: self.sterilize_needle()
AfterDeposit == "ster_hot"

\* the abort checks after the pick move, the deposit move and the sterilization
SampleAbortCheck ==
    /\ pc \in {"samp_chk1", "samp_chk2", "samp_chk3"}
    /\ IF abort
       THEN /\ pc' = "samp_outer"
            /\ abortSeen' = TRUE
            /\ sampLog' = Append(sampLog,
                    [op |-> "abort", id |-> petri_dishes[dishI].colonies[colI].id])
            /\ UNCHANGED sterFrom
       ELSE /\ pc' = CASE pc = "samp_chk1" -> "samp_well"
                       [] pc = "samp_chk2" -> AfterDeposit
                       [] pc = "samp_chk3" -> "samp_dur"
            /\ sterFrom' = IF pc = "samp_chk2" THEN "colony" ELSE sterFrom
            /\ UNCHANGED <<abortSeen, sampLog>>
    /\ UNCHANGED <<capLog, reads, readFailed, stopAt, stageI, dishI, colI, e, curExc,
                   hwVars, dataVars, noteVars, mainVars, countVars, recov,
                   abortEver, faultEver, afterFault>>

\* `target_well = self.wells[colony.id]`, then the move to the well
SampleDeposit ==
    /\ pc = "samp_well"
    /\ LET id == petri_dishes[dishI].colonies[colI].id
       IN  IF id >= NumWells
           THEN /\ Raise("well_index")
                /\ UNCHANGED <<petri_dishes, afterFault, sampLog>>
           ELSE /\ petri_dishes' =
                     [petri_dishes EXCEPT ![dishI].colonies[colI].well = id + 1]
                /\ afterFault' = Mark({"motion"})
                /\ sampLog' = Append(sampLog, [op |-> "deposit", id |-> id])
                /\ \/ /\ pc' = "samp_chk2"
                      /\ UNCHANGED <<e, curExc, faultEver>>
                   \/ Raise("move")
    /\ UNCHANGED <<capLog, reads, readFailed, stopAt, stageI, dishI, colI, sterFrom, hwVars, total_colonies,
                   dish_count, detected, workbook, noteVars, mainVars,
                   countVars, recov, abortSeen, abortEver>>

\* `colony.sample_duration = ...`, then the abort check closing the inner loop
SampleDuration ==
    /\ pc = "samp_dur"
    /\ petri_dishes' =
          [petri_dishes EXCEPT ![dishI].colonies[colI].sample_duration = TRUE]
    /\ IF abort
       THEN /\ pc' = "samp_outer"
            /\ abortSeen' = TRUE
            /\ UNCHANGED colI
       ELSE /\ pc' = InnerHead(dishI, colI + 1)
            /\ colI' = colI + 1
            /\ UNCHANGED abortSeen
    /\ UNCHANGED <<logVars, stageI, dishI, sterFrom, e, curExc, hwVars, total_colonies,
                   dish_count, detected, workbook, noteVars, mainVars,
                   countVars, recov, abortEver, faultEver, afterFault>>

\* the abort check closing the loop over the dishes
SampleOuter ==
    /\ pc = "samp_outer"
    /\ IF abort
       THEN /\ HandlerDone
            /\ abortSeen' = TRUE
            /\ UNCHANGED <<dishI, colI>>
       ELSE /\ IF dishI < dish_count
               THEN /\ pc' = InnerHead(dishI + 1, 1)
                    /\ dishI' = dishI + 1
                    /\ colI' = 1
                    /\ UNCHANGED stageI
               ELSE /\ HandlerDone
                    /\ UNCHANGED <<dishI, colI>>
            /\ UNCHANGED abortSeen
    /\ UNCHANGED <<logVars, sterFrom, e, curExc, hwVars, dataVars, noteVars, mainVars,
                   countVars, recov, abortEver, faultEver, afterFault>>

\* ------------------------------------------ worker: save_tabulated_data
\* ExcelImage(petri_dish.raw_image_path) raises for a dish with colonies
\* and no raw image
SaveMustFail(dishes) ==
    \E d \in 1..Len(dishes) :
        Len(dishes[d].colonies) > 0 /\ ~dishes[d].raw_image

SaveTabulatedData ==
    /\ pc = "save"
    /\ saves' = saves + 1
    /\ \/ /\ ~SaveMustFail(petri_dishes)
          /\ workbook' = SheetRows(petri_dishes)
          /\ HandlerDone
          /\ UNCHANGED <<e, curExc, faultEver>>
       \/ /\ Raise("save")
          /\ UNCHANGED <<stageI, workbook>>
    /\ UNCHANGED <<logVars, dishI, colI, sterFrom, hwVars, petri_dishes, total_colonies,
                   dish_count, detected, noteVars, mainVars, camReleases,
                   driveTerminates, termCalls, recov, abortSeen, abortEver,
                   afterFault>>

\* ------------------------------------------- worker: terminate(polite=True)
TermRelease ==
    /\ pc = "term_release"
    /\ termCalls' = termCalls + 1
    /\ progress' = Append(progress, [kind |-> "value", val |-> total_colonies])
    /\ CamRelease
    /\ pc' = "term_park"
    /\ UNCHANGED <<logVars, stageI, dishI, colI, sterFrom, e, curExc, hasCam, hasDrive,
                   driveUp, abort, paused, homed, dataVars, notes, mainVars,
                   driveTerminates, saves, histVars>>

TermPark ==
    /\ pc = "term_park"
    /\ afterFault' = Mark({"motion"})
    /\ \/ /\ pc' = "term_drive"
          /\ UNCHANGED <<e, curExc, faultEver>>
       \/ Raise("move")
    /\ UNCHANGED <<logVars, stageI, dishI, colI, sterFrom, hwVars, dataVars, noteVars,
                   mainVars, countVars, recov, abortSeen, abortEver>>

TermDrive ==
    /\ pc = "term_drive"
    /\ DriveTerminate
    /\ \/ /\ HandlerDone
          /\ UNCHANGED <<e, curExc, faultEver>>
       \/ /\ Raise("drive_terminate")
          /\ UNCHANGED stageI
    /\ UNCHANGED <<logVars, dishI, colI, sterFrom, hasCam, hasDrive, camOpen, paused,
                   homed, dataVars, noteVars, mainVars, camReleases, termCalls,
                   saves, recov, abortSeen, afterFault>>

\* ---------------------------- worker: the except clause of run_full_proc
RecoverSave ==
    /\ pc = "exc_save"
    /\ recov' = Append(recov, "save")
    /\ saves' = saves + 1
    /\ \/ /\ ~SaveMustFail(petri_dishes)
          /\ workbook' = SheetRows(petri_dishes)
          /\ pc' = "exc_release"
          /\ UNCHANGED <<e, curExc, faultEver>>
       \/ /\ RaiseInRecovery("save")
          /\ UNCHANGED workbook
    /\ UNCHANGED <<logVars, stageI, dishI, colI, sterFrom, hwVars, petri_dishes,
                   total_colonies, dish_count, detected, noteVars, mainVars,
                   camReleases, driveTerminates, termCalls, abortSeen,
                   abortEver, afterFault>>

\* terminate(polite=False): self.cam.release()
RecoverRelease ==
    /\ pc = "exc_release"
    /\ recov' = Append(recov, "terminate")
    /\ termCalls' = termCalls + 1
    /\ IF hasCam
       THEN /\ CamRelease
            /\ pc' = "exc_drive"
            /\ UNCHANGED <<e, curExc, faultEver>>
       ELSE /\ RaiseInRecovery("no_cam")
            /\ UNCHANGED <<camReleases, camOpen>>
    /\ UNCHANGED <<logVars, stageI, dishI, colI, sterFrom, hasCam, hasDrive, driveUp,
                   abort, paused, homed, dataVars, noteVars, mainVars,
                   driveTerminates, saves, abortSeen, abortEver, afterFault>>

\* terminate(polite=False): self.drive_ctrl.terminate()
RecoverDrive ==
    /\ pc = "exc_drive"
    /\ IF hasDrive
       THEN /\ DriveTerminate
            /\ \/ /\ pc' = "exc_emit"
                  /\ UNCHANGED <<e, curExc, faultEver>>
               \/ RaiseInRecovery("drive_terminate")
       ELSE /\ RaiseInRecovery("no_drive")
            /\ UNCHANGED <<driveTerminates, driveUp, abort, abortEver>>
    /\ UNCHANGED <<logVars, stageI, dishI, colI, sterFrom, hasCam, hasDrive, camOpen,
                   paused, homed, dataVars, noteVars, mainVars, camReleases,
                   termCalls, saves, recov, abortSeen, afterFault>>

\* a finally clause reporting the exception raised last
FaultMessageLast == curExc

\* the message of the fault notification of the finally clause: str(e)
FaultMessage == e

\* the finally clause: self.exception.emit(str(e))
RecoverEmit ==
    /\ pc = "exc_emit"
    /\ notes' = Append(notes, FaultNote(FaultMessage))
    /\ recov' = Append(recov, "emit")
    /\ pc' = "done"
    /\ UNCHANGED <<logVars, stageI, dishI, colI, sterFrom, e, curExc, hwVars, dataVars,
                   progress, mainVars, countVars, abortSeen, abortEver,
                   faultEver, afterFault>>

Worker ==
    \/ CheckStage \/ PostLoop \/ EmitFinished
    \/ InitCamera \/ InitDrives \/ HomeDrives
    \/ CaptureMove \/ CaptureAbortCheck \/ CaptureDiscard \/ CaptureRead
    \/ CaptureRelease
    \/ LocateValidColonies
    \/ SterilizeHot \/ SterilizeCool
    \/ SamplePick \/ SampleAbortCheck \/ SampleDeposit \/ SampleDuration
    \/ SampleOuter
    \/ SaveTabulatedData
    \/ TermRelease \/ TermPark \/ TermDrive
    \/ RecoverSave \/ RecoverRelease \/ RecoverDrive \/ RecoverEmit

\* ------------------------------------------------------------ main thread
\* a notification whose slot can change MainWindow.state: for the stage
\* notifications other than DRIVE_HOME sample_state_update_callback only
\* redraws the buttons from the unchanged state
Effective(n) == n.kind # "stage" \/ n.val = "DRIVE_HOME"

\* the queued notifications not yet handled that can change MainWindow.state
PendingEffective == {i \in (seen + 1)..Len(notes) : Effective(notes[i])}

\* the main thread handles the queued notifications up to the next one of
\* PendingEffective: sample_state_update_callback, report_exception or
\* sample_done_callback
Deliver ==
    /\ mpc = "idle"
    /\ PendingEffective # {}
    /\ LET i == CHOOSE k \in PendingEffective :
                    \A j \in PendingEffective : k <= j
           n == notes[i]
       IN  /\ seen' = i
           /\ uiState' = CASE n.kind = "stage" -> "RUNNING"
                           [] n.kind = "fault" -> "IDLE"
                           [] n.kind = "finished" -> "IDLE"
    /\ UNCHANGED <<logVars, mpc, starts, workerVars, hwVars, dataVars, noteVars,
                   countVars, histVars>>

\* stop_button_callback up to its call of terminate(polite=False)
StopClick ==
    /\ mpc = "idle"
    /\ uiState = "RUNNING"
    /\ uiState' = "IDLE"
    /\ mpc' = "stop_release"
    /\ termCalls' = termCalls + 1
    /\ stopAt' = IF HandlerStage = 6 THEN Transfers ELSE -2
    /\ UNCHANGED <<sampLog, capLog, reads, readFailed, seen, starts, workerVars,
                   hwVars, dataVars, noteVars, camReleases,
                   driveTerminates, saves, histVars>>

StopRelease ==
    /\ mpc = "stop_release"
    /\ CamRelease
    /\ mpc' = "stop_drive"
    /\ UNCHANGED <<logVars, seen, uiState, starts, workerVars, hasCam, hasDrive, driveUp, abort,
                   paused, homed, dataVars, noteVars, driveTerminates,
                   termCalls, saves, histVars>>

StopDrive ==
    /\ mpc = "stop_drive"
    /\ DriveTerminate
    /\ mpc' = "idle"
    /\ UNCHANGED <<logVars, seen, uiState, starts, workerVars, hasCam, hasDrive, camOpen, paused,
                   homed, dataVars, noteVars, camReleases, termCalls, saves,
                   recov, abortSeen, faultEver, afterFault>>

\* ProcessControlWorker.pause, called by the controlling context
Pause ==
    /\ mpc = "idle"
    /\ uiState = "RUNNING"
    /\ ~paused
    /\ paused' = TRUE
    /\ abort' = TRUE
    /\ abortEver' = TRUE
    /\ UNCHANGED <<logVars, mainVars, workerVars, hasCam, hasDrive, camOpen, driveUp,
                   homed, dataVars, noteVars, countVars, recov, abortSeen,
                   faultEver, afterFault>>

\* ProcessControlWorker.resume, called by the controlling context
Resume ==
    /\ mpc = "idle"
    /\ uiState = "RUNNING"
    /\ paused
    /\ paused' = FALSE
    /\ abort' = FALSE
    /\ UNCHANGED <<logVars, mainVars, workerVars, hasCam, hasDrive, camOpen, driveUp,
                   homed, dataVars, noteVars, countVars, histVars>>

Main == Deliver \/ StopClick \/ StopRelease \/ StopDrive \/ Pause \/ Resume

Next == Worker \/ Main

Spec == Init /\ [][Next]_vars

\* the worker thread keeps running while it has a step to take
FairSpec == Init /\ [][Next]_vars /\ WF_vars(Worker)

\* ------------------------------------------------- starting another run
\* start_button_callback with valid dish names: in state IDLE it builds a
\* new worker and starts its thread.  The worker followed by the model is
\* the first one: its notifications stay connected to the main window,
\* while proc_ctrl_worker refers to the newest worker.
StartClick ==
    /\ mpc = "idle"
    /\ uiState = "IDLE"
    /\ starts < MaxStarts
    /\ uiState' = "STARTUP"
    /\ starts' = starts + 1
    /\ UNCHANGED <<seen, mpc, logVars, workerVars, hwVars, dataVars, noteVars,
                   countVars, histVars>>

\* the stop button acts on the worker followed while it is the newest one
NextStart ==
    \/ Worker
    \/ Deliver
    \/ StartClick
    \/ (starts = 1 /\ StopClick)
    \/ StopRelease
    \/ StopDrive

SpecStart == Init /\ [][NextStart]_vars

\* ----------------------------------- colony selection as a pure function
\* the worker about to run locate_valid_colonies, for detector outputs
\* around the well capacity
InitSel ==
    /\ dish_count \in 1..MaxDishesSel
    /\ detected \in [1..dish_count -> DetectChoices]
    /\ pc = "locate"
    /\ stageI = 5 /\ dishI = 1 /\ colI = 1 /\ sterFrom = "first"
    /\ e = "" /\ curExc = ""
    /\ hasCam = TRUE /\ hasDrive = TRUE /\ camOpen = FALSE /\ driveUp = TRUE
    /\ abort = FALSE /\ paused = FALSE /\ homed = {"Z", "X", "Y"}
    /\ petri_dishes = [d \in 1..dish_count |-> [PetriDish EXCEPT !.raw_image = TRUE]]
    /\ total_colonies = -1
    /\ workbook = <<>>
    /\ notes = [i \in 1..5 |-> StageNote(process_actions[i])]
    /\ progress = <<>>
    /\ seen = 5 /\ uiState = "RUNNING" /\ mpc = "idle" /\ starts = 1
    /\ camReleases = 1 /\ driveTerminates = 0 /\ termCalls = 0 /\ saves = 0
    /\ recov = <<>> /\ abortSeen = FALSE /\ abortEver = FALSE
    /\ faultEver = FALSE /\ afterFault = {}
    /\ sampLog = <<>>
    /\ capLog = [i \in 1..(2 * dish_count) |->
                    [op |-> IF i % 2 = 1 THEN "move" ELSE "image",
                     dish |-> (i + 1) \div 2]]
    /\ reads = 0 /\ readFailed = FALSE
    /\ stopAt = -1

NextSel == LocateValidColonies

SpecSel == InitSel /\ [][NextSel]_vars

\* -------------------------------------------------- image capture alone
\* the worker about to run capture_images, for every dish count the spin
\* box accepts; the controlling context may pause and resume
InitCap ==
    /\ dish_count \in 1..NumDishSlots
    /\ detected = [d \in 1..dish_count |-> 0]
    /\ pc = "cap_move"
    /\ stageI = 4 /\ dishI = 1 /\ colI = 1 /\ sterFrom = "first"
    /\ e = "" /\ curExc = ""
    /\ hasCam = TRUE /\ hasDrive = TRUE /\ camOpen = TRUE /\ driveUp = TRUE
    /\ abort = FALSE /\ paused = FALSE /\ homed = {"Z", "X", "Y"}
    /\ petri_dishes = [d \in 1..dish_count |-> PetriDish]
    /\ total_colonies = -1
    /\ workbook = <<>>
    /\ notes = [i \in 1..4 |-> StageNote(process_actions[i])]
    /\ progress = <<>>
    /\ seen = 3 /\ uiState = "RUNNING" /\ mpc = "idle" /\ starts = 1
    /\ camReleases = 0 /\ driveTerminates = 0 /\ termCalls = 0 /\ saves = 0
    /\ recov = <<>> /\ abortSeen = FALSE /\ abortEver = FALSE
    /\ faultEver = FALSE /\ afterFault = {}
    /\ sampLog = <<>> /\ capLog = <<>> /\ reads = 0 /\ readFailed = FALSE
    /\ stopAt = -1

NextCap ==
    \/ CaptureMove \/ CaptureAbortCheck \/ CaptureDiscard \/ CaptureRead
    \/ CaptureRelease
    \/ Pause \/ Resume

SpecCap == InitCap /\ [][NextCap]_vars

\* ------------------------------------------------- sampling cycle alone
\* the worker about to run run_sampling_cycle on what locate_valid_colonies
\* left, for detector outputs around the number of wells
InitSamp ==
    /\ dish_count \in 1..MaxDishesSel
    /\ detected \in [1..dish_count -> DetectSamp]
    /\ pc = "ster_hot"
    /\ stageI = 6 /\ dishI = 1 /\ colI = 1 /\ sterFrom = "first"
    /\ e = "" /\ curExc = ""
    /\ hasCam = TRUE /\ hasDrive = TRUE /\ camOpen = FALSE /\ driveUp = TRUE
    /\ abort = FALSE /\ paused = FALSE /\ homed = {"Z", "X", "Y"}
    /\ LET r == LocateFrom([d \in 1..dish_count |->
                               [PetriDish EXCEPT !.raw_image = TRUE]],
                           detected, 1, 0)
       IN  /\ petri_dishes = r.dishes
           /\ total_colonies = r.count
           /\ progress = <<ColonyCountNote(r.count)>>
    /\ workbook = <<>>
    /\ notes = [i \in 1..6 |-> StageNote(process_actions[i])]
    /\ seen = 3 /\ uiState = "RUNNING" /\ mpc = "idle" /\ starts = 1
    /\ camReleases = 1 /\ driveTerminates = 0 /\ termCalls = 0 /\ saves = 0
    /\ recov = <<>> /\ abortSeen = FALSE /\ abortEver = FALSE
    /\ faultEver = FALSE /\ afterFault = {}
    /\ sampLog = <<>>
    /\ capLog = [i \in 1..(2 * dish_count) |->
                    [op |-> IF i % 2 = 1 THEN "move" ELSE "image",
                     dish |-> (i + 1) \div 2]]
    /\ reads = 0 /\ readFailed = FALSE
    /\ stopAt = -1

NextSamp ==
    \/ SterilizeHot \/ SterilizeCool
    \/ SamplePick \/ SampleAbortCheck \/ SampleDeposit \/ SampleDuration
    \/ SampleOuter

SpecSamp == InitSamp /\ [][NextSamp]_vars

\* ------------------------------------------------------------- properties
Range(q) == {q[i] : i \in 1..Len(q)}

FaultEmitted == \E i \in 1..Len(notes) : notes[i].kind = "fault"

\* C1: a run emits at most one terminal notification (`finished` or
\* `fault`) in total: never two faults, never a fault and a finished.
C1_AtMostOneTerminal == Len(terminals) <= 1

\* C2: every started run eventually emits a terminal notification, also
\* when the camera delivers no valid frame or is released by a stop while
\* the worker is inside IMG_CAP.
C2_EventuallyTerminal == <>(Len(terminals) > 0)

\* C3: at the moment the notification that ends a run is emitted, the camera
\* has been released exactly once and the drive session terminated exactly
\* once (for a run that had established both, i.e. got past DRIVE_INIT).
C3_ReleasedExactlyOnce ==
    [][(Len(terminals') > Len(terminals) /\ pc' = "done" /\ stageI >= 3)
         => (camReleases' = 1 /\ driveTerminates' = 1)]_vars

\* C4: a run in which the worker observed the abort flag set (and nothing
\* faulted) has still executed SAV_TAB and TERM when it ends, and ends with
\* `finished`.
C4_AbortStillSavesAndTerminates ==
    (pc = "done" /\ abortSeen /\ ~faultEver)
        => /\ {"SAV_TAB", "TERM"} \subseteq {n.val : n \in Range(stages)}
           /\ terminals = <<FinishedNote>>

\* a terminate call is between its first and its last step
TerminateRunning ==
    \/ pc \in {"term_park", "term_drive", "exc_drive"}
    \/ mpc # "idle"

\* C5: after terminate has been invoked twice on the worker, the camera has
\* been released exactly once and the drive session terminated exactly once.
C5_TerminateIdempotent ==
    (termCalls = 2 /\ ~TerminateRunning)
        => (camReleases = 1 /\ driveTerminates = 1)

\* C6: the stage notifications are announced in the fixed order, none twice
\* and none out of order: a prefix of CAM_INIT..TERM, possibly followed by
\* DONE; while a handler runs, its stage is the last one announced; a run
\* without abort and fault announces all nine stages and then emits exactly
\* one `finished`.
C6_StageOrder ==
    /\ \E k \in 0..8 :
          \/ stages = [i \in 1..k |-> StageNote(StageOrder[i])]
          \/ stages = [i \in 1..k |-> StageNote(StageOrder[i])]
                         \o <<StageNote("DONE")>>
    /\ HandlerStage # 0
          => /\ Len(stages) = HandlerStage
             /\ stages[Len(stages)] = StageNote(StageOrder[HandlerStage])
    /\ (pc = "done" /\ ~abortEver /\ ~faultEver)
          => /\ stages = [i \in 1..9 |-> StageNote(StageOrder[i])]
             /\ notes = stages \o <<FinishedNote>>

C6_Witness ==
    /\ pc = "done" /\ ~abortEver /\ ~faultEver
    /\ Len(stages) = 9
    /\ terminals = <<FinishedNote>>

\* C7: after a fault in any stage the worker emits no further stage
\* notification and starts no acquisition, processing or sampling handler.
C7_FaultAbortsStages ==
    afterFault \cap {"stage", "IMG_CAP", "IMG_PROC", "SAMP_CYC"} = {}

\* C8: when a stage faults the worker persists the data, terminates the
\* hardware non-politely and then emits the fault notification, and submits
\* no motion command to the drive after the fault.
C8_RecoverySequence ==
    /\ "motion" \notin afterFault
    /\ FaultEmitted => recov = <<"save", "terminate", "emit">>

\* C9: the fault notification that ends a faulted run carries the message
\* of the original stage fault, also when a step of the recovery failed.
C9_OriginalFaultSurfaces ==
    (pc = "done" /\ e # "")
        => notes[Len(notes)] = FaultNote(e)

C9_Witness ==
    /\ pc = "done"
    /\ e = "move" /\ curExc = "save"
    /\ recov = <<"save", "emit">>
    /\ notes[Len(notes)] = FaultNote("move")

\* number of colonies the detector reports over the active dishes
DetectedTotal == SumTo(detected, dish_count)

\* C10: after IMG_PROC the dishes hold at most Capacity target colonies, and
\* exactly Capacity, none twice, when more than Capacity were detected.
C10_TargetsWithinCapacity ==
    total_colonies # -1
        => /\ TargetCount(petri_dishes) <= Capacity
           /\ DetectedTotal > Capacity
                 => /\ TargetCount(petri_dishes) = Capacity
                    /\ Cardinality(TargetIds(petri_dishes)) = Capacity

\* IMG_PROC has run to its end
Located == total_colonies # -1

\* number of colonies held by the dishes before dish d
ColoniesBefore(d) ==
    SumTo([k \in 1..Len(petri_dishes) |-> Len(petri_dishes[k].colonies)], d - 1)

\* C11: when at most Capacity colonies are detected in total, every detected
\* colony of every dish becomes a target: each dish holds as many colonies
\* as were detected for it, and progress_max is the detected total.
C11_AllBecomeTargets ==
    (Located /\ DetectedTotal <= Capacity)
        => /\ \A d \in 1..dish_count :
                 Len(petri_dishes[d].colonies) = detected[d]
           /\ total_colonies = DetectedTotal
           /\ progress # <<>>
           /\ progress[1] = [kind |-> "max", val |-> DetectedTotal]

C11_Witness ==
    /\ Located
    /\ dish_count = 2
    /\ detected = <<95, 1>>
    /\ Len(petri_dishes[2].colonies) = 1
    /\ total_colonies = 96

\* C12: after IMG_PROC the colony ids are exactly 0..M-1 for the M records
\* created, numbered in dish order and within a dish in list order.
C12_DenseIds ==
    Located
        => /\ TargetIds(petri_dishes) = 0..(TargetCount(petri_dishes) - 1)
           /\ \A d \in 1..dish_count :
                 \A k \in 1..Len(petri_dishes[d].colonies) :
                    petri_dishes[d].colonies[k].id = ColoniesBefore(d) + k - 1

C12_Witness ==
    /\ Located
    /\ dish_count = 2
    /\ detected = <<47, 48>>
    /\ petri_dishes[2].colonies[1].id = 47
    /\ petri_dishes[2].colonies[48].id = 94

\* the colony records that have been given a well
Deposited ==
    UNION {{petri_dishes[d].colonies[k] :
               k \in {j \in 1..Len(petri_dishes[d].colonies) :
                         petri_dishes[d].colonies[j].well # 0}} :
           d \in 1..Len(petri_dishes)}

\* C13: every colony deposited goes into an existing well, colony i into
\* the i-th well with i below the capacity, no two colonies into the same
\* well, and the well lookup never goes past the end of the well table.
C13_WellsInRange ==
    /\ curExc # "well_index"
    /\ \A c \in Deposited : c.well = c.id + 1 /\ c.id < Capacity
    /\ \A c1, c2 \in Deposited : c1.well = c2.well => c1 = c2

\* sterilization cycles run by the sampling cycle (the cooling move closes one)
SterCycles == Len(SelectSeq(sampLog, LAMBDA x : x.op = "ster_cool"))

\* run_sampling_cycle has returned
SampledThrough == stageI >= 7

\* the drive commands of a sampling cycle that transfers colonies 0..k-1
ExpectedSampLog(k) ==
    [i \in 1..(2 + 4 * k) |->
        IF i <= 2
        THEN [op |-> IF i = 1 THEN "ster_hot" ELSE "ster_cool", id |-> -1]
        ELSE CASE (i - 3) % 4 = 0 -> [op |-> "pick", id |-> (i - 3) \div 4]
               [] (i - 3) % 4 = 1 -> [op |-> "deposit", id |-> (i - 3) \div 4]
               [] (i - 3) % 4 = 2 -> [op |-> "ster_hot", id |-> -1]
               [] (i - 3) % 4 = 3 -> [op |-> "ster_cool", id |-> -1]]

\* C14: a sampling cycle that ran to its end without abort and fault and
\* transferred k colonies (all the targets) ran exactly k+1 sterilization
\* cycles: one before the first pick and one after each deposit.
C14_SterilizationCycles ==
    (SampledThrough /\ ~abortSeen /\ ~faultEver)
        => /\ Transfers = TargetCount(petri_dishes)
           /\ SterCycles = Transfers + 1
           /\ sampLog = ExpectedSampLog(Transfers)

C14_Witness ==
    /\ SampledThrough /\ ~abortSeen /\ ~faultEver
    /\ Transfers = 2
    /\ SterCycles = 3

\* capture_images has returned
CapturedThrough == stageI >= 5

\* one move_direct and then one image for each of the dishes 1..n, in order
ExpectedCapLog(n) ==
    [i \in 1..(2 * n) |->
        [op |-> IF i % 2 = 1 THEN "move" ELSE "image", dish |-> (i + 1) \div 2]]

\* C15: an IMG_CAP stage that completes without abort and fault issues one
\* move_direct and takes one image for each of the first dish_count dishes,
\* in dish order, and none for a dish slot beyond dish_count.
C15_EveryActiveDishImaged ==
    (CapturedThrough /\ ~abortSeen /\ ~faultEver)
        => /\ capLog = ExpectedCapLog(dish_count)
           /\ \A d \in 1..dish_count : petri_dishes[d].raw_image

C15_Witness ==
    /\ CapturedThrough /\ ~abortSeen /\ ~faultEver
    /\ dish_count = NumDishSlots
    /\ Len(capLog) = 2 * NumDishSlots
    /\ camReleases = 1

\* a workbook has been written
Saved == workbook # <<>>

\* number of rows of a sheet that report the colony with the given id
RowsFor(sheet, id) == Cardinality({i \in 1..Len(sheet) : sheet[i].id = id})

\* C16: the workbook save_tabulated_data writes has one sheet per active
\* dish; a colony with a sample_duration has exactly one row, on the sheet
\* of its own dish, and a colony without one has no row.
C16_RowsMatchTransfers ==
    Saved
        => /\ Len(workbook) = dish_count
           /\ \A d \in 1..dish_count :
                 \A k \in 1..Len(petri_dishes[d].colonies) :
                    LET c == petri_dishes[d].colonies[k]
                    IN  \A sh \in 1..dish_count :
                           RowsFor(workbook[sh], c.id) =
                              IF sh = d /\ c.sample_duration THEN 1 ELSE 0

C16_Witness ==
    /\ Saved
    /\ dish_count = 2
    /\ TargetCount(petri_dishes) = 2
    /\ Transfers = 1
    /\ Len(workbook[1]) = 1
    /\ Len(workbook[2]) = 0

\* number of colony rows of the workbook, over all sheets
RowCount == SumTo([d \in 1..Len(workbook) |-> Len(workbook[d])], Len(workbook))

\* C17: a run in which the stop button was clicked during SAMP_CYC after k
\* transfers (k below the number of targets), in which every dish was
\* imaged, no operation faulted and no pause is pending, ends with a
\* workbook of exactly k colony rows persisted, the
\* camera and the drive session released, and `finished` as its terminal
\* notification.
C17_StopMidSampling ==
    (pc = "done" /\ stopAt >= 0 /\ stopAt < TargetCount(petri_dishes)
       /\ ~faultEver /\ ~paused /\ capLog = ExpectedCapLog(dish_count))
        => /\ Saved
           /\ RowCount = stopAt
           /\ camReleases >= 1 /\ driveTerminates >= 1
           /\ terminals = <<FinishedNote>>

\* C18: when the detector reports no colony for any dish and the run has
\* neither abort nor fault, every stage runs and DONE is announced,
\* progress_max is emitted as 0, the sampling cycle submits no pick and no
\* deposit move, and the workbook has one sheet per dish without a row.
C18_NoColonies ==
    (pc = "done" /\ DetectedTotal = 0 /\ ~abortEver /\ ~faultEver)
        => /\ stages = [i \in 1..9 |-> StageNote(StageOrder[i])]
           /\ progress # <<>>
           /\ progress[1] = [kind |-> "max", val |-> 0]
           /\ \A i \in 2..Len(progress) : progress[i].kind # "max"
           /\ sampLog = ExpectedSampLog(0)
           /\ Saved
           /\ Len(workbook) = dish_count
           /\ \A d \in 1..dish_count : workbook[d] = <<>>

C18_Witness ==
    /\ pc = "done" /\ ~abortEver /\ ~faultEver
    /\ dish_count = 2
    /\ detected = <<0, 0>>
    /\ Len(stages) = 9
    /\ Len(workbook) = 2

\* the abort flag was raised during the run and cleared again by resume(),
\* with no stop click and no fault
PausedAndResumed ==
    /\ abortEver /\ ~abort /\ ~paused
    /\ stopAt = -1
    /\ ~faultEver

ReadsPerDish == 2

\* C20: during IMG_CAP at most two frame reads are issued for one dish (one
\* discarded, one kept), and after a read of the current dish has failed
\* the capture of that dish does not go on.
C20_FailedReadNotRetried ==
    /\ reads <= ReadsPerDish
    /\ readFailed => pc \notin {"cap_discard", "cap_read"}

\* the stage labels announced so far
Announced == {n.val : n \in Range(stages)}

\* C21: no stage handler is executed twice in a run (taken here for the
\* runs whose homing succeeded), also when SAV_TAB or TERM itself faults:
\* save_tabulated_data runs at most once, and the worker does not run
\* terminate again after its TERM stage.
C21_NoStageRetried ==
    homed = {"Z", "X", "Y"}
        => /\ saves <= 1
           /\ ~("TERM" \in Announced /\ "terminate" \in Range(recov))

\* the axes that have been homed when the homing command of an axis is
\* submitted
HomedBefore == [Z |-> {}, X |-> {"Z"}, Y |-> {"Z", "X"}]

\* C22: the homing commands are issued in the order Z, X, Y, each after the
\* one before has completed: when the command for an axis is about to be
\* submitted exactly the axes before it have been homed, and X or Y is
\* homed only if Z is.
C22_HomingOrder ==
    /\ \A axis \in {"Z", "X", "Y"} : pc = HomePc[axis] => homed = HomedBefore[axis]
    /\ homed \in {{}, {"Z"}, {"Z", "X"}, {"Z", "X", "Y"}}

C22_Witness ==
    /\ homed = {"Z", "X", "Y"}
    /\ ~faultEver
    /\ stageI = 4

\* C23: in IMG_CAP the abort flag is checked after the move_direct of each
\* dish and before its frames are read; once capture_images has observed
\* the flag set at dish d, the last drive command of the stage is the move
\* to dish d, no frame is read for dish d, no image is recorded for dish d
\* or a later dish, and the loop over the dishes is not resumed (also when
\* the flag is cleared afterwards).
C23_AbortBeforeCapture ==
    /\ pc = "cap_abort"
          => capLog # <<>> /\ capLog[Len(capLog)] = [op |-> "move", dish |-> dishI]
    /\ abortSeen
          => /\ capLog = ExpectedCapLog(dishI - 1)
                            \o <<[op |-> "move", dish |-> dishI]>>
             /\ reads = 0 /\ ~readFailed
             /\ \A d \in dishI..dish_count : ~petri_dishes[d].raw_image
             /\ pc \notin {"cap_move", "cap_abort", "cap_discard", "cap_read"}

C23_Witness ==
    /\ abortSeen /\ ~abort
    /\ dish_count = NumDishSlots
    /\ dishI = 3
    /\ CapturedThrough
    /\ Len(capLog) = 5
    /\ petri_dishes[2].raw_image

\* the colony records held by the dishes
AllColonies == UNION {Range(petri_dishes[d].colonies) : d \in 1..Len(petri_dishes)}

\* the pick move, the deposit move and the sterilization of the colony with
\* the given id were submitted one after the other, no abort in between
TransferLogged(id) ==
    \E j \in 1..(Len(sampLog) - 3) :
        /\ sampLog[j] = [op |-> "pick", id |-> id]
        /\ sampLog[j + 1] = [op |-> "deposit", id |-> id]
        /\ sampLog[j + 2] = [op |-> "ster_hot", id |-> -1]
        /\ sampLog[j + 3] = [op |-> "ster_cool", id |-> -1]

\* C24: once run_sampling_cycle has observed the abort flag set at one of
\* its checkpoints (after the pick move, after the deposit move, after the
\* sterilization), it submits no further sterilization, pick or deposit
\* move, and the colony it was processing keeps a null sample_duration; a
\* colony has a sample_duration only if its pick move, its deposit move and
\* the sterilization after them were all carried out.
\* (Taken for the runs in which nothing has faulted and every dish was
\* imaged.)
C24_AbortUnwindsSampling ==
    (~faultEver /\ capLog = ExpectedCapLog(dish_count))
        => /\ \A i \in 1..Len(sampLog) :
                 sampLog[i].op = "abort"
                    => /\ i = Len(sampLog)
                       /\ \A c \in AllColonies :
                             c.id = sampLog[i].id => ~c.sample_duration
           /\ \A c \in AllColonies : c.sample_duration => TransferLogged(c.id)

\* the drive commands run_sampling_cycle has submitted, in order
SampCommands == SelectSeq(sampLog, LAMBDA x : x.op # "abort")

\* C25: SAMP_CYC takes the target colonies in ascending id order and
\* submits, for each, the pick move, the deposit move, the move to the
\* sterilizer and the move to cruise depth, in this order; no command for
\* a colony is submitted before the sterilization of the colony before it
\* has finished: at every moment the commands submitted are a prefix of
\* that sequence.  (Taken for the runs in which nothing has faulted and
\* every dish was imaged.)
C25_SamplingOrder ==
    (~faultEver /\ capLog = ExpectedCapLog(dish_count))
        => /\ Len(SampCommands) <= 2 + 4 * TargetCount(petri_dishes)
           /\ SampCommands =
                 SubSeq(ExpectedSampLog(TargetCount(petri_dishes)),
                        1, Len(SampCommands))

\* the progress_value (colony_index) notifications emitted, in order
ProgressValues == SelectSeq(progress, LAMBDA x : x.kind = "value")

\* C26: a progress_value notification is emitted once for each completed
\* transfer, after the transfer: while the sampling cycle runs as many
\* have been emitted as transfers were completed, and the last one emitted
\* carries the number of transfers completed so far.  (Taken for the runs
\* without fault and abort in which every dish was imaged.)
C26_ProgressAfterTransfer ==
    (~faultEver /\ ~abortEver /\ capLog = ExpectedCapLog(dish_count))
        => /\ HandlerStage = 6 => Len(ProgressValues) = Transfers
           /\ ProgressValues # <<>>
                 => ProgressValues[Len(ProgressValues)].val = Transfers

\* the progress_max (colony_count) notifications emitted, in order
ProgressMaxes == SelectSeq(progress, LAMBDA x : x.kind = "max")

\* C27: progress_max is emitted at most once in a run, at the end of
\* IMG_PROC (not while locate_valid_colonies still runs) and before every
\* progress_value; every progress_value emitted, by the sampling cycle or by
\* the polite terminate, lies between 0 and the emitted maximum; the polite
\* terminate runs only after IMG_PROC has set the total colony count.
C27_ProgressWithinMax ==
    /\ Len(ProgressMaxes) <= 1
    /\ pc = "locate" => ProgressMaxes = <<>>
    /\ ProgressMaxes # <<>>
          => Located /\ ProgressMaxes[1].val = total_colonies
    /\ ProgressValues # <<>>
          => /\ progress[1].kind = "max"
             /\ \A i \in 1..Len(ProgressValues) :
                   /\ ProgressValues[i].val >= 0
                   /\ ProgressValues[i].val <= progress[1].val
    /\ HandlerStage = 8 => Located

C27_Witness ==
    /\ pc = "done"
    /\ Len(ProgressValues) = 3
    /\ progress[1] = [kind |-> "max", val |-> 2]
    /\ ProgressValues[3].val = 2

\* a positioning command has been submitted to the drive: a move_direct of
\* IMG_CAP, a move of SAMP_CYC or the park move of the polite terminate
MotionSubmitted ==
    \/ capLog # <<>>
    \/ SampCommands # <<>>
    \/ pc = "term_drive"

\* C28: no positioning command is submitted to the drive unless the three
\* axes Z, X and Y were homed successfully before, in the same run.
C28_MotionOnlyWhenHomed ==
    MotionSubmitted => homed = {"Z", "X", "Y"}

\* the worker's thread is still inside run_full_proc
PipelineRunning == pc # "done"

\* C29: at most one worker pipeline executes at a time: the main window
\* starts a new worker only when the worker started before has left its
\* pipeline.
C29_OneWorkerAtATime ==
    [][starts' > starts => ~PipelineRunning]_vars

\* C30: the DONE stage notification is emitted only in a run in which
\* every stage CAM_INIT through TERM was announced and carried out: every
\* dish imaged, every target colony transferred, the workbook written and
\* the drive session terminated.  (Taken for the runs without fault.)
C30_DoneOnlyAfterAllStages ==
    ("DONE" \in Announced /\ ~faultEver)
        => /\ stages = [i \in 1..9 |-> StageNote(StageOrder[i])]
           /\ capLog = ExpectedCapLog(dish_count)
           /\ Transfers = TargetCount(petri_dishes)
           /\ Saved
           /\ driveTerminates >= 1

\* init_camera and init_drives have both returned: the stage loop is past
\* DRIVE_INIT
InitsCompleted == stageI >= 3

\* C31: terminate is invoked, by the stop button or by the worker's fault
\* recovery, only on a worker whose init_camera and init_drives have both
\* completed, and the check of the abort flag after the stage loop is
\* reached only when the drive controller exists.
C31_TerminateOnlyAfterInits ==
    [][/\ termCalls' > termCalls => InitsCompleted
       /\ pc' = "post" => hasDrive']_vars

====
